---- MODULE Spec2Model ----
(***************************************************************************)
(* The graph handle of cpp/src/structure/cugraph.cu: one gdf_graph holding *)
(* up to three representations (edgeList, adjList, transposedAdjList), the *)
(* cached numberOfVertices and the has_negative_edges property, driven by  *)
(* the view / add / delete / number_of_vertices entry points.              *)
(*                                                                         *)
(* Every entry point is a pure operator from the handle before the call    *)
(* (and the call's inputs) to an outcome [g, status, conv]: the handle     *)
(* after the call, the status the caller sees and whether the COO->CSR     *)
(* converter ran.  A failed CUGRAPH_EXPECTS ends the call at that line     *)
(* (in a nested call too) with its reason string as the status.            *)
(*                                                                         *)
(* Spec follows every call, with malformed inputs and failed conversions,  *)
(* on the smallest graphs; SpecDerive follows the derivations of one       *)
(* well-formed graph of more edges through views, adds and deletes.        *)
(***************************************************************************)
EXTENDS Integers, Sequences, FiniteSets, TLC

\* ------------------------------------------------------------- bounds
\* Vertex identifiers of the enumerated inputs are 0..MaxVertexId.
MaxVertexId == 1
\* The enumerated inputs hold 1..MaxEdges edges.
MaxEdges == 1
\* The inputs the derivations are followed on hold 1..MaxDerivedEdges edges.
MaxDerivedEdges == 2

VertexIds == 0 .. MaxVertexId

\* ------------------------------------------------------------- values
\* nullptr
NULL == [null |-> TRUE]

\* std::numeric_limits<int32_t>::lowest(), the identity of cub's Max
INT32_MIN == -2147483647 - 1

\* The six dtypes the has_negative_val switch names.
SwitchDtypes ==
  {"GDF_INT8", "GDF_INT16", "GDF_INT32", "GDF_INT64", "GDF_FLOAT32", "GDF_FLOAT64"}

\* The dtypes an edge_data column is drawn from: an integer kind, the two
\* floating-point kinds and a kind outside the six above whose values are
\* signed numbers too (days since the epoch).
EdgeDataDtypes == {"GDF_INT32", "GDF_FLOAT32", "GDF_FLOAT64", "GDF_DATE32"}

\* The values an edge_data column of n entries is drawn from: distinct
\* weights, all positive or with a negative one at the end.
WeightData(n) ==
  {[i \in 1 .. n |-> i], [i \in 1 .. n |-> IF i = n THEN -i ELSE i]}

\* gdf_column_view(out, data, valid, size, dtype): a column descriptor over
\* existing data (null_count 0).
gdf_column_view(data, size, dtype) ==
  [data |-> data, size |-> size, dtype |-> dtype]

\* cpy_column_view(in, out): a shallow view of in.
cpy_column_view(in) == gdf_column_view(in.data, in.size, in.dtype)

\* A column a caller passes in.
InputColumn(data, dtype, null_count) ==
  [data |-> data, size |-> Len(data), dtype |-> dtype, null_count |-> null_count]

\* cugraph::detail::has_negative_val(ptr, size)
has_negative_val(data) == \E i \in 1 .. Len(data) : data[i] < 0

\* The switch on edge_data->dtype of the two view functions.
HasNegValDispatch(col) ==
  CASE col.dtype = "GDF_INT8"    -> has_negative_val(col.data)
    [] col.dtype = "GDF_INT16"   -> has_negative_val(col.data)
    [] col.dtype = "GDF_INT32"   -> has_negative_val(col.data)
    [] col.dtype = "GDF_INT64"   -> has_negative_val(col.data)
    [] col.dtype = "GDF_FLOAT32" -> has_negative_val(col.data)
    [] col.dtype = "GDF_FLOAT64" -> has_negative_val(col.data)
    [] OTHER                     -> FALSE

\* new gdf_graph_properties()
NewProperties == [has_negative_edges |-> "GDF_PROP_UNDEF"]

PropOf(b) == IF b THEN "GDF_PROP_TRUE" ELSE "GDF_PROP_FALSE"

\* An outcome of a call.
Outcome(g, status, conv) == [g |-> g, status |-> status, conv |-> conv]

\* The handle as constructed: no representation, no properties, no vertices.
EmptyGraph ==
  [edgeList |-> NULL, adjList |-> NULL, transposedAdjList |-> NULL,
   numberOfVertices |-> 0, prop |-> NULL]

\* ------------------------------------------------------------- views
\* A failed CUGRAPH_EXPECTS(cond, reason): the call ends there, with what it has
\* written so far, and the caller is told the reason.
Fails(g, reason) == Outcome(g, reason, FALSE)

\* gdf_adj_list_view past its precondition checks: the columns are installed,
\* then edge_data is checked and scanned, then numberOfVertices is set.
adj_list_view_install(g, offsets, indices, edge_data) ==
  LET al == [offsets |-> cpy_column_view(offsets),
             indices |-> cpy_column_view(indices),
             edge_data |-> NULL]
      p  == IF g.prop = NULL THEN NewProperties ELSE g.prop
  IN  IF edge_data # NULL
        THEN IF indices.size # edge_data.size
               THEN Fails([g EXCEPT !.adjList = al, !.prop = p], "Column size mismatch")
               ELSE Outcome(
                      [g EXCEPT
                         !.adjList = [al EXCEPT !.edge_data = cpy_column_view(edge_data)],
                         !.prop = [p EXCEPT !.has_negative_edges =
                                     PropOf(HasNegValDispatch(cpy_column_view(edge_data)))],
                         !.numberOfVertices = offsets.size - 1],
                      "GDF_SUCCESS", FALSE)
        ELSE Outcome(
               [g EXCEPT
                  !.adjList = al,
                  !.prop = [p EXCEPT !.has_negative_edges = "GDF_PROP_FALSE"],
                  !.numberOfVertices = offsets.size - 1],
               "GDF_SUCCESS", FALSE)

\* gdf_adj_list_view(graph, offsets, indices, edge_data)
gdf_adj_list_view(g, offsets, indices, edge_data) ==
  IF ~(g.edgeList = NULL /\ g.adjList = NULL /\ g.transposedAdjList = NULL)
    THEN Fails(g, "Invalid API parameter")
  ELSE IF offsets.null_count # 0
    THEN Fails(g, "Input column has non-zero null count")
  ELSE IF indices.null_count # 0
    THEN Fails(g, "Input column has non-zero null count")
  ELSE IF offsets.dtype # indices.dtype
    THEN Fails(g, "Unsupported data type")
  ELSE IF offsets.dtype # "GDF_INT32"
    THEN Fails(g, "Unsupported data type")
  ELSE IF ~(offsets.size > 0)
    THEN Fails(g, "Column is empty")
  ELSE adj_list_view_install(g, offsets, indices, edge_data)

\* The statuses cugraph::detail::indexing_check can return.
IndexingCheckStatuses == {"GDF_SUCCESS", "InvalidEdges"}

\* gdf_edge_list_view past its precondition checks: the columns are installed,
\* then edge_data is checked and scanned; the status is the one indexing_check
\* returns for the installed index pairs (check).
edge_list_view_install(g, src_indices, dest_indices, edge_data, check) ==
  LET el == [src_indices |-> cpy_column_view(src_indices),
             dest_indices |-> cpy_column_view(dest_indices),
             edge_data |-> NULL]
      p  == IF g.prop = NULL THEN NewProperties ELSE g.prop
  IN  IF edge_data # NULL
        THEN IF src_indices.size # edge_data.size
               THEN Fails([g EXCEPT !.edgeList = el, !.prop = p], "Column size mismatch")
               ELSE Outcome(
                      [g EXCEPT
                         !.edgeList = [el EXCEPT !.edge_data = cpy_column_view(edge_data)],
                         !.prop = [p EXCEPT !.has_negative_edges =
                                     PropOf(HasNegValDispatch(cpy_column_view(edge_data)))]],
                      check, FALSE)
        ELSE Outcome(
               [g EXCEPT
                  !.edgeList = el,
                  !.prop = [p EXCEPT !.has_negative_edges = "GDF_PROP_FALSE"]],
               check, FALSE)

\* A gdf_edge_list_view that installs over whatever the handle holds.
gdf_edge_list_view_NoExclusion(g, src_indices, dest_indices, edge_data, check) ==
  IF src_indices.size # dest_indices.size
    THEN Fails(g, "Column size mismatch")
  ELSE IF src_indices.dtype # dest_indices.dtype
    THEN Fails(g, "Unsupported data type")
  ELSE IF src_indices.dtype # "GDF_INT32"
    THEN Fails(g, "Unsupported data type")
  ELSE IF ~(src_indices.size > 0)
    THEN Fails(g, "Column is empty")
  ELSE IF src_indices.null_count # 0
    THEN Fails(g, "Input column has non-zero null count")
  ELSE IF dest_indices.null_count # 0
    THEN Fails(g, "Input column has non-zero null count")
  ELSE edge_list_view_install(g, src_indices, dest_indices, edge_data, check)

\* A gdf_edge_list_view that takes index columns of any dtype, as long as the
\* two agree.
gdf_edge_list_view_AnyIndexDtype(g, src_indices, dest_indices, edge_data, check) ==
  IF ~(g.edgeList = NULL /\ g.adjList = NULL /\ g.transposedAdjList = NULL)
    THEN Fails(g, "Invalid API parameter")
  ELSE IF src_indices.size # dest_indices.size
    THEN Fails(g, "Column size mismatch")
  ELSE IF src_indices.dtype # dest_indices.dtype
    THEN Fails(g, "Unsupported data type")
  ELSE IF ~(src_indices.size > 0)
    THEN Fails(g, "Column is empty")
  ELSE IF src_indices.null_count # 0
    THEN Fails(g, "Input column has non-zero null count")
  ELSE IF dest_indices.null_count # 0
    THEN Fails(g, "Input column has non-zero null count")
  ELSE edge_list_view_install(g, src_indices, dest_indices, edge_data, check)

\* gdf_edge_list_view(graph, src_indices, dest_indices, edge_data)
gdf_edge_list_view(g, src_indices, dest_indices, edge_data, check) ==
  IF ~(g.edgeList = NULL /\ g.adjList = NULL /\ g.transposedAdjList = NULL)
    THEN Fails(g, "Invalid API parameter")
  ELSE IF src_indices.size # dest_indices.size
    THEN Fails(g, "Column size mismatch")
  ELSE IF src_indices.dtype # dest_indices.dtype
    THEN Fails(g, "Unsupported data type")
  ELSE IF src_indices.dtype # "GDF_INT32"
    THEN Fails(g, "Unsupported data type")
  ELSE IF ~(src_indices.size > 0)
    THEN Fails(g, "Column is empty")
  ELSE IF src_indices.null_count # 0
    THEN Fails(g, "Input column has non-zero null count")
  ELSE IF dest_indices.null_count # 0
    THEN Fails(g, "Input column has non-zero null count")
  ELSE edge_list_view_install(g, src_indices, dest_indices, edge_data, check)

\* ------------------------------------------------------------- converters
Max2(a, b) == IF a >= b THEN a ELSE b

\* The largest element of a non-empty sequence of integers.
SeqMax(s) == CHOOSE m \in {s[i] : i \in 1 .. Len(s)} : \A i \in 1 .. Len(s) : s[i] <= m

\* The positions of key, in ascending order, that hold vertex v.
PositionsOf(key, v) ==
  SelectSeq([i \in 1 .. Len(key) |-> i], LAMBDA i : key[i] = v)

\* The stable sort of the positions of key by their vertex, vertices 0..n-1.
RECURSIVE StableOrder(_, _)
StableOrder(key, n) ==
  IF n = 0 THEN << >>
  ELSE StableOrder(key, n - 1) \o PositionsOf(key, n - 1)

\* CSR_Result<int>() as constructed: nothing allocated.
EmptyCSR == [size |-> 0, nnz |-> 0, rowOffsets |-> << >>, colIndices |-> << >>,
             edgeWeights |-> << >>]

\* The statuses the converter can return: 0, or non-zero when its allocation
\* fails.
ConverterStatuses == {0, 1}

\* ConvertCOOtoCSR_weighted(sources, destinations, edgeWeights, nnz, result):
\* the edges grouped by source in stable order. size is 1 + the largest vertex
\* identifier of sources and destinations; with nnz = 0 that maximum is read
\* past the end of the arrays, and oob is the value found there. A non-zero
\* status leaves result as constructed.
ConvertCOOtoCSR_weighted(sources, destinations, edgeWeights, nnz, status, oob) ==
  IF status # 0 THEN EmptyCSR
  ELSE
    LET maxId == IF nnz = 0 THEN oob
                 ELSE Max2(SeqMax(sources), SeqMax(destinations))
        size  == maxId + 1
        order == StableOrder(sources, size)
    IN  [size |-> size,
         nnz |-> nnz,
         rowOffsets |->
           [k \in 1 .. size + 1 |->
              Cardinality({i \in 1 .. nnz : sources[i] < k - 1})],
         colIndices |-> [k \in 1 .. nnz |-> destinations[order[k]]],
         edgeWeights |-> [k \in 1 .. nnz |-> edgeWeights[order[k]]]]

\* ConvertCOOtoCSR(sources, destinations, nnz, result): the same without
\* weights.
ConvertCOOtoCSR(sources, destinations, nnz, status, oob) ==
  IF status # 0 THEN EmptyCSR
  ELSE
    LET maxId == IF nnz = 0 THEN oob
                 ELSE Max2(SeqMax(sources), SeqMax(destinations))
        size  == maxId + 1
        order == StableOrder(sources, size)
    IN  [size |-> size,
         nnz |-> nnz,
         rowOffsets |->
           [k \in 1 .. size + 1 |->
              Cardinality({i \in 1 .. nnz : sources[i] < k - 1})],
         colIndices |-> [k \in 1 .. nnz |-> destinations[order[k]]],
         edgeWeights |-> << >>]

\* cugraph::detail::offsets_to_indices(offsets, v, indices): entry i of the n
\* outputs is the vertex whose offset range [offsets[v], offsets[v+1]) holds i.
offsets_to_indices(offsets, v, n) ==
  [i \in 1 .. n |->
     CHOOSE u \in 0 .. v - 1 : offsets[u + 1] <= i - 1 /\ i - 1 < offsets[u + 2]]

\* ------------------------------------------------------------- add
\* An add_adj_list_convert that leaves numberOfVertices as it finds it.
add_adj_list_convert_KeepsVertexCount(g, status, oob) ==
  LET el  == g.edgeList
      nnz == el.src_indices.size
      r   == IF el.edge_data # NULL
               THEN ConvertCOOtoCSR_weighted(el.src_indices.data,
                      el.dest_indices.data, el.edge_data.data, nnz, status, oob)
               ELSE ConvertCOOtoCSR(el.src_indices.data,
                      el.dest_indices.data, nnz, status, oob)
      al  == [offsets |-> gdf_column_view(r.rowOffsets, r.size + 1,
                                          el.src_indices.dtype),
              indices |-> gdf_column_view(r.colIndices, r.nnz,
                                          el.src_indices.dtype),
              edge_data |->
                IF el.edge_data # NULL
                  THEN gdf_column_view(r.edgeWeights, r.nnz, el.edge_data.dtype)
                  ELSE NULL]
  IN  IF status # 0
        THEN Outcome([g EXCEPT !.adjList = al], "GDF_CUDA_ERROR", TRUE)
        ELSE Outcome([g EXCEPT !.adjList = al], "GDF_SUCCESS", TRUE)

\* An add_adj_list_convert that hands the converter dest as its sources and
\* src as its destinations.
add_adj_list_convert_Swapped(g, status, oob) ==
  LET el  == g.edgeList
      nnz == el.src_indices.size
      r   == IF el.edge_data # NULL
               THEN ConvertCOOtoCSR_weighted(el.dest_indices.data,
                      el.src_indices.data, el.edge_data.data, nnz, status, oob)
               ELSE ConvertCOOtoCSR(el.dest_indices.data,
                      el.src_indices.data, nnz, status, oob)
      al  == [offsets |-> gdf_column_view(r.rowOffsets, r.size + 1,
                                          el.src_indices.dtype),
              indices |-> gdf_column_view(r.colIndices, r.nnz,
                                          el.src_indices.dtype),
              edge_data |->
                IF el.edge_data # NULL
                  THEN gdf_column_view(r.edgeWeights, r.nnz, el.edge_data.dtype)
                  ELSE NULL]
  IN  IF status # 0
        THEN Outcome([g EXCEPT !.adjList = al], "GDF_CUDA_ERROR", TRUE)
        ELSE Outcome([g EXCEPT !.adjList = al,
                               !.numberOfVertices = al.offsets.size - 1],
                     "GDF_SUCCESS", TRUE)

\* The conversion of gdf_add_adj_list_impl: the edge list's (src, dest[,
\* weight]) goes through the converter and the result is installed as adjList;
\* numberOfVertices is set unless the converter reported a non-zero status.
add_adj_list_convert(g, status, oob) ==
  LET el  == g.edgeList
      nnz == el.src_indices.size
      r   == IF el.edge_data # NULL
               THEN ConvertCOOtoCSR_weighted(el.src_indices.data,
                      el.dest_indices.data, el.edge_data.data, nnz, status, oob)
               ELSE ConvertCOOtoCSR(el.src_indices.data,
                      el.dest_indices.data, nnz, status, oob)
      al  == [offsets |-> gdf_column_view(r.rowOffsets, r.size + 1,
                                          el.src_indices.dtype),
              indices |-> gdf_column_view(r.colIndices, r.nnz,
                                          el.src_indices.dtype),
              edge_data |->
                IF el.edge_data # NULL
                  THEN gdf_column_view(r.edgeWeights, r.nnz, el.edge_data.dtype)
                  ELSE NULL]
  IN  IF status # 0
        THEN Outcome([g EXCEPT !.adjList = al], "GDF_CUDA_ERROR", TRUE)
        ELSE Outcome([g EXCEPT !.adjList = al,
                               !.numberOfVertices = al.offsets.size - 1],
                     "GDF_SUCCESS", TRUE)

\* gdf_add_adj_list_impl<T, WT>(graph); WT only names the C++ type the weights
\* are read as.
gdf_add_adj_list_impl(g, status, oob) ==
  IF g.adjList = NULL
    THEN IF g.edgeList = NULL
           THEN Fails(g, "Invalid API parameter")
           ELSE add_adj_list_convert(g, status, oob)
    ELSE Outcome(g, "GDF_SUCCESS", FALSE)

\* An add_edge_list_derive that does not expand the offsets: src_indices is
\* one more view of the adjacency list's indices.
add_edge_list_derive_NoExpansion(g) ==
  LET al    == g.adjList
      el    == [src_indices |-> cpy_column_view(al.indices),
                dest_indices |-> cpy_column_view(al.indices),
                edge_data |-> IF al.edge_data # NULL
                                THEN cpy_column_view(al.edge_data)
                                ELSE NULL]
  IN  Outcome([g EXCEPT !.edgeList = el], "GDF_SUCCESS", FALSE)

\* The derivation of gdf_add_edge_list: src_indices expands the offsets,
\* dest_indices and edge_data are shallow views of the adjacency list's.
add_edge_list_derive(g) ==
  LET al    == g.adjList
      d_src == offsets_to_indices(al.offsets.data, al.offsets.size - 1,
                                  al.indices.size)
      el    == [src_indices |-> gdf_column_view(d_src, al.indices.size,
                                                al.indices.dtype),
                dest_indices |-> cpy_column_view(al.indices),
                edge_data |-> IF al.edge_data # NULL
                                THEN cpy_column_view(al.edge_data)
                                ELSE NULL]
  IN  Outcome([g EXCEPT !.edgeList = el], "GDF_SUCCESS", FALSE)

\* A gdf_add_edge_list that does not check for its source.
gdf_add_edge_list_NoSourceCheck(g) ==
  IF g.edgeList = NULL /\ g.adjList # NULL
    THEN add_edge_list_derive(g)
    ELSE Outcome(g, "GDF_SUCCESS", FALSE)

\* gdf_add_edge_list(graph)
gdf_add_edge_list(g) ==
  IF g.edgeList = NULL
    THEN IF g.adjList = NULL
           THEN Fails(g, "Invalid API parameter")
           ELSE add_edge_list_derive(g)
    ELSE Outcome(g, "GDF_SUCCESS", FALSE)

\* An add_transposed_adj_list_convert whose offsets column has result.size
\* entries instead of result.size + 1.
add_transposed_adj_list_convert_ShortOffsets(g, status, oob) ==
  LET el  == g.edgeList
      nnz == el.src_indices.size
      r   == IF el.edge_data # NULL
               THEN ConvertCOOtoCSR_weighted(el.dest_indices.data,
                      el.src_indices.data, el.edge_data.data, nnz, status, oob)
               ELSE ConvertCOOtoCSR(el.dest_indices.data,
                      el.src_indices.data, nnz, status, oob)
      al  == [offsets |-> gdf_column_view(SubSeq(r.rowOffsets, 1, r.size), r.size,
                                          el.src_indices.dtype),
              indices |-> gdf_column_view(r.colIndices, r.nnz,
                                          el.src_indices.dtype),
              edge_data |->
                IF el.edge_data # NULL
                  THEN gdf_column_view(r.edgeWeights, r.nnz, el.edge_data.dtype)
                  ELSE NULL]
  IN  IF status # 0
        THEN Outcome([g EXCEPT !.transposedAdjList = al], "GDF_CUDA_ERROR", TRUE)
        ELSE Outcome([g EXCEPT !.transposedAdjList = al,
                               !.numberOfVertices = al.offsets.size - 1],
                     "GDF_SUCCESS", TRUE)

\* An add_transposed_adj_list_convert that hands the converter src as its
\* sources and dest as its destinations.
add_transposed_adj_list_convert_Unswapped(g, status, oob) ==
  LET el  == g.edgeList
      nnz == el.src_indices.size
      r   == IF el.edge_data # NULL
               THEN ConvertCOOtoCSR_weighted(el.src_indices.data,
                      el.dest_indices.data, el.edge_data.data, nnz, status, oob)
               ELSE ConvertCOOtoCSR(el.src_indices.data,
                      el.dest_indices.data, nnz, status, oob)
      al  == [offsets |-> gdf_column_view(r.rowOffsets, r.size + 1,
                                          el.src_indices.dtype),
              indices |-> gdf_column_view(r.colIndices, r.nnz,
                                          el.src_indices.dtype),
              edge_data |->
                IF el.edge_data # NULL
                  THEN gdf_column_view(r.edgeWeights, r.nnz, el.edge_data.dtype)
                  ELSE NULL]
  IN  IF status # 0
        THEN Outcome([g EXCEPT !.transposedAdjList = al], "GDF_CUDA_ERROR", TRUE)
        ELSE Outcome([g EXCEPT !.transposedAdjList = al,
                               !.numberOfVertices = al.offsets.size - 1],
                     "GDF_SUCCESS", TRUE)

\* The conversion of gdf_add_transposed_adj_list_impl: as for adjList, with
\* the roles of src and dest swapped.
add_transposed_adj_list_convert(g, status, oob) ==
  LET el  == g.edgeList
      nnz == el.src_indices.size
      r   == IF el.edge_data # NULL
               THEN ConvertCOOtoCSR_weighted(el.dest_indices.data,
                      el.src_indices.data, el.edge_data.data, nnz, status, oob)
               ELSE ConvertCOOtoCSR(el.dest_indices.data,
                      el.src_indices.data, nnz, status, oob)
      al  == [offsets |-> gdf_column_view(r.rowOffsets, r.size + 1,
                                          el.src_indices.dtype),
              indices |-> gdf_column_view(r.colIndices, r.nnz,
                                          el.src_indices.dtype),
              edge_data |->
                IF el.edge_data # NULL
                  THEN gdf_column_view(r.edgeWeights, r.nnz, el.edge_data.dtype)
                  ELSE NULL]
  IN  IF status # 0
        THEN Outcome([g EXCEPT !.transposedAdjList = al], "GDF_CUDA_ERROR", TRUE)
        ELSE Outcome([g EXCEPT !.transposedAdjList = al,
                               !.numberOfVertices = al.offsets.size - 1],
                     "GDF_SUCCESS", TRUE)

\* gdf_add_transposed_adj_list_impl<WT>(graph)
gdf_add_transposed_adj_list_impl(g, status, oob) ==
  IF g.transposedAdjList = NULL
    THEN IF g.edgeList = NULL
           THEN Fails(g, "Invalid API parameter")
           ELSE add_transposed_adj_list_convert(g, status, oob)
    ELSE Outcome(g, "GDF_SUCCESS", FALSE)

\* A gdf_add_adj_list that converts again whenever an edge list is there.
gdf_add_adj_list_Reconvert(g, status, oob) ==
  IF g.edgeList = NULL
    THEN IF g.adjList # NULL
           THEN Outcome(g, "GDF_SUCCESS", FALSE)
           ELSE Fails(g, "Invalid API parameter")
  ELSE IF g.edgeList.src_indices.dtype # "GDF_INT32"
    THEN Fails(g, "Unsupported data type")
  ELSE IF g.edgeList.edge_data # NULL
    THEN CASE g.edgeList.edge_data.dtype = "GDF_FLOAT32" ->
                add_adj_list_convert(g, status, oob)
           [] g.edgeList.edge_data.dtype = "GDF_FLOAT64" ->
                add_adj_list_convert(g, status, oob)
           [] OTHER -> Outcome(g, "GDF_UNSUPPORTED_DTYPE", FALSE)
  ELSE add_adj_list_convert(g, status, oob)

\* gdf_add_adj_list(graph)
gdf_add_adj_list(g, status, oob) ==
  IF g.adjList # NULL
    THEN Outcome(g, "GDF_SUCCESS", FALSE)
  ELSE IF g.edgeList = NULL
    THEN Fails(g, "Invalid API parameter")
  ELSE IF g.edgeList.src_indices.dtype # "GDF_INT32"
    THEN Fails(g, "Unsupported data type")
  ELSE IF g.edgeList.edge_data # NULL
    THEN CASE g.edgeList.edge_data.dtype = "GDF_FLOAT32" ->
                gdf_add_adj_list_impl(g, status, oob)
           [] g.edgeList.edge_data.dtype = "GDF_FLOAT64" ->
                gdf_add_adj_list_impl(g, status, oob)
           [] OTHER -> Outcome(g, "GDF_UNSUPPORTED_DTYPE", FALSE)
  ELSE gdf_add_adj_list_impl(g, status, oob)

\* A gdf_add_transposed_adj_list that does not derive the edge list first.
gdf_add_transposed_adj_list_NoDerive(g, status, oob) ==
  IF g.edgeList = NULL
    THEN Fails(g, "Invalid API parameter")
  ELSE IF g.edgeList.src_indices.dtype # "GDF_INT32"
    THEN Fails(g, "Unsupported data type")
  ELSE IF g.edgeList.dest_indices.dtype # "GDF_INT32"
    THEN Fails(g, "Unsupported data type")
  ELSE IF g.edgeList.edge_data # NULL
    THEN CASE g.edgeList.edge_data.dtype = "GDF_FLOAT32" ->
                gdf_add_transposed_adj_list_impl(g, status, oob)
           [] g.edgeList.edge_data.dtype = "GDF_FLOAT64" ->
                gdf_add_transposed_adj_list_impl(g, status, oob)
           [] OTHER -> Outcome(g, "GDF_UNSUPPORTED_DTYPE", FALSE)
  ELSE gdf_add_transposed_adj_list_impl(g, status, oob)

\* gdf_add_transposed_adj_list(graph). The status of the nested
\* gdf_add_edge_list is not read: it either succeeds or its CUGRAPH_EXPECTS
\* ends the whole call.
gdf_add_transposed_adj_list(g, status, oob) ==
  LET first == IF g.edgeList = NULL
                 THEN gdf_add_edge_list(g)
                 ELSE Outcome(g, "GDF_SUCCESS", FALSE)
      h     == first.g
  IN  IF first.status # "GDF_SUCCESS"
        THEN first
      ELSE IF h.edgeList.src_indices.dtype # "GDF_INT32"
        THEN Fails(h, "Unsupported data type")
      ELSE IF h.edgeList.dest_indices.dtype # "GDF_INT32"
        THEN Fails(h, "Unsupported data type")
      ELSE IF h.edgeList.edge_data # NULL
        THEN CASE h.edgeList.edge_data.dtype = "GDF_FLOAT32" ->
                    gdf_add_transposed_adj_list_impl(h, status, oob)
               [] h.edgeList.edge_data.dtype = "GDF_FLOAT64" ->
                    gdf_add_transposed_adj_list_impl(h, status, oob)
               [] OTHER -> Outcome(h, "GDF_UNSUPPORTED_DTYPE", FALSE)
      ELSE gdf_add_transposed_adj_list_impl(h, status, oob)

\* ------------------------------------------------------------- delete
\* A gdf_delete_adj_list that clears the edge list's slot instead.
gdf_delete_adj_list_WrongSlot(g) ==
  Outcome([g EXCEPT !.edgeList = NULL], "GDF_SUCCESS", FALSE)

\* gdf_delete_adj_list(graph)
gdf_delete_adj_list(g) ==
  Outcome([g EXCEPT !.adjList = NULL], "GDF_SUCCESS", FALSE)

\* gdf_delete_edge_list(graph)
gdf_delete_edge_list(g) ==
  Outcome([g EXCEPT !.edgeList = NULL], "GDF_SUCCESS", FALSE)

\* gdf_delete_transposed_adj_list(graph)
gdf_delete_transposed_adj_list(g) ==
  Outcome([g EXCEPT !.transposedAdjList = NULL], "GDF_SUCCESS", FALSE)

\* ------------------------------------------------------------- vertex count
\* cub::DeviceReduce::Max over a column's data (lowest() when it is empty).
DeviceReduceMax(data) == IF Len(data) = 0 THEN INT32_MIN ELSE SeqMax(data)

\* gdf_number_of_vertices(graph)
gdf_number_of_vertices(g) ==
  IF g.numberOfVertices # 0
    THEN Outcome(g, "GDF_SUCCESS", FALSE)
  ELSE IF g.edgeList = NULL
    THEN Fails(g, "Invalid API parameter")
  ELSE IF g.edgeList.src_indices.dtype # "GDF_INT32"
    THEN Fails(g, "Unsupported data type")
  ELSE
    LET h_max0 == DeviceReduceMax(g.edgeList.src_indices.data)
        h_max1 == DeviceReduceMax(g.edgeList.dest_indices.data)
    IN  Outcome([g EXCEPT !.numberOfVertices = 1 + Max2(h_max0, h_max1)],
                "GDF_SUCCESS", FALSE)

\* ------------------------------------------------------------- state
VARIABLES
  edgeList,           \* graph->edgeList: NULL or [src_indices, dest_indices, edge_data]
  adjList,            \* graph->adjList: NULL or [offsets, indices, edge_data]
  transposedAdjList,  \* graph->transposedAdjList, shaped like adjList
  numberOfVertices,   \* graph->numberOfVertices
  prop,               \* graph->prop: NULL or [has_negative_edges]
  last,               \* the last call and what it answered
  given,              \* SpecDerive: the caller's graph the view is given
  dropped             \* SpecDerive: what the last call, a delete, found in its slot

vars ==
  <<edgeList, adjList, transposedAdjList, numberOfVertices, prop, last, given,
    dropped>>

\* The handle the calls work on.
Graph ==
  [edgeList |-> edgeList, adjList |-> adjList, transposedAdjList |-> transposedAdjList,
   numberOfVertices |-> numberOfVertices, prop |-> prop]

\* graph->prop->has_negative_edges as a caller reads it (unknown with no prop).
HasNegativeEdges(g) ==
  IF g.prop = NULL THEN "GDF_PROP_UNDEF" ELSE g.prop.has_negative_edges

\* The representation slots of g that are populated.
Populated(g) ==
  {f \in {"edgeList", "adjList", "transposedAdjList"} : g[f] # NULL}

\* ------------------------------------------------------------- inputs
\* The edge_data columns a caller passes for n edges: none, or one of each
\* dtype and choice of values.
EdgeDataInputs(n) ==
  {NULL} \cup {InputColumn(w, d, 0) : w \in WeightData(n), d \in EdgeDataDtypes}

\* The ways an input departs from the documented preconditions of a view
\* ("indexing": the index pairs do not pass indexing_check).
EdgeListDefects ==
  {"none", "size_mismatch", "dtype_mismatch", "not_int32", "empty",
   "src_nulls", "dest_nulls", "edge_data_size", "indexing"}

AdjListDefects ==
  {"none", "offsets_nulls", "indices_nulls", "dtype_mismatch", "not_int32",
   "empty", "edge_data_size"}

\* All but the last element of a column's data.
Shorter(col) ==
  InputColumn(SubSeq(col.data, 1, Len(col.data) - 1), col.dtype, col.null_count)

\* The offset arrays of a CSR with v vertices and e edges.
OffsetArrays(v, e) ==
  {o \in [1 .. v + 1 -> 0 .. e] :
     /\ o[1] = 0
     /\ o[v + 1] = e
     /\ \A i \in 1 .. v : o[i] <= o[i + 1]}

\* The well-formed edge lists: 1..MaxEdges edges over VertexIds, with or
\* without edge_data.
EdgeListInputs ==
  UNION {[src : [1 .. n -> VertexIds], dest : [1 .. n -> VertexIds],
          edge_data : EdgeDataInputs(n)] : n \in 1 .. MaxEdges}

\* The well-formed adjacency lists: 1..MaxVertexId+1 vertices, 1..MaxEdges
\* edges, with or without edge_data.
AdjListInputs ==
  UNION {[offs : OffsetArrays(v, e), ind : [1 .. e -> 0 .. v - 1],
          edge_data : EdgeDataInputs(e)] :
           v \in 1 .. MaxVertexId + 1, e \in 1 .. MaxEdges}

\* A view of a populated handle ends at its first check whatever it is given:
\* there it is tried with one graph only.
EdgeListInputsFor(g) ==
  IF g.edgeList = NULL /\ g.adjList = NULL /\ g.transposedAdjList = NULL
    THEN EdgeListInputs
    ELSE {[src |-> <<0>>, dest |-> <<0>>, edge_data |-> NULL]}

AdjListInputsFor(g) ==
  IF g.edgeList = NULL /\ g.adjList = NULL /\ g.transposedAdjList = NULL
    THEN AdjListInputs
    ELSE {[offs |-> <<0, 1>>, ind |-> <<0>>, edge_data |-> NULL]}

\* The values the converter's maximum can read past the end of the arrays of
\* an edge list of no edges (the one g holds, or the one derived from its
\* adjacency list); with edges nothing is read there.
OutOfRangeReads(g) ==
  IF \/ g.edgeList # NULL /\ g.edgeList.src_indices.size = 0
     \/ g.edgeList = NULL /\ g.adjList # NULL /\ g.adjList.indices.size = 0
    THEN VertexIds
    ELSE {0}

\* ------------------------------------------------------------- actions
\* The call op answered out: the handle becomes out.g and last records the
\* call: its status, whether the converter ran, whether the call before it was
\* the same operation and succeeded, and whether its inputs met every
\* documented precondition.
Apply(op, out, valid) ==
  /\ edgeList' = out.g.edgeList
  /\ adjList' = out.g.adjList
  /\ transposedAdjList' = out.g.transposedAdjList
  /\ numberOfVertices' = out.g.numberOfVertices
  /\ prop' = out.g.prop
  /\ last' = [op |-> op,
              status |-> out.status,
              conv |-> out.conv,
              again |-> (last.op = op /\ last.status = "GDF_SUCCESS"),
              valid |-> valid]

\* A call that is no delete of SpecDerive: nothing is found in a slot.
Commit(op, out, valid) ==
  /\ Apply(op, out, valid)
  /\ given' = given
  /\ dropped' = NULL

ViewAsEdgeList ==
  \E in \in EdgeListInputsFor(Graph), defect \in EdgeListDefects :
    LET s == CASE defect = "not_int32" -> InputColumn(in.src, "GDF_INT64", 0)
               [] defect = "empty"     -> InputColumn(<< >>, "GDF_INT32", 0)
               [] defect = "src_nulls" -> InputColumn(in.src, "GDF_INT32", 1)
               [] OTHER                -> InputColumn(in.src, "GDF_INT32", 0)
        d == CASE defect = "size_mismatch"  -> Shorter(InputColumn(in.dest, "GDF_INT32", 0))
               [] defect = "dtype_mismatch" -> InputColumn(in.dest, "GDF_INT64", 0)
               [] defect = "not_int32"      -> InputColumn(in.dest, "GDF_INT64", 0)
               [] defect = "empty"          -> InputColumn(<< >>, "GDF_INT32", 0)
               [] defect = "dest_nulls"     -> InputColumn(in.dest, "GDF_INT32", 1)
               [] OTHER                     -> InputColumn(in.dest, "GDF_INT32", 0)
        w == IF defect = "edge_data_size" THEN Shorter(in.edge_data) ELSE in.edge_data
        check == IF defect = "indexing" THEN "InvalidEdges" ELSE "GDF_SUCCESS"
    IN  /\ defect = "edge_data_size" => in.edge_data # NULL
        /\ check \in IndexingCheckStatuses
        /\ Commit("gdf_edge_list_view",
                  gdf_edge_list_view(Graph, s, d, w, check),
                  defect = "none")

ViewAsAdjList ==
  \E in \in AdjListInputsFor(Graph), defect \in AdjListDefects :
    LET o == CASE defect = "offsets_nulls" -> InputColumn(in.offs, "GDF_INT32", 1)
               [] defect = "not_int32"     -> InputColumn(in.offs, "GDF_INT64", 0)
               [] defect = "empty"         -> InputColumn(<< >>, "GDF_INT32", 0)
               [] OTHER                    -> InputColumn(in.offs, "GDF_INT32", 0)
        i == CASE defect = "indices_nulls"  -> InputColumn(in.ind, "GDF_INT32", 1)
               [] defect = "dtype_mismatch" -> InputColumn(in.ind, "GDF_INT64", 0)
               [] defect = "not_int32"      -> InputColumn(in.ind, "GDF_INT64", 0)
               [] defect = "empty"          -> InputColumn(<< >>, "GDF_INT32", 0)
               [] OTHER                     -> InputColumn(in.ind, "GDF_INT32", 0)
        w == IF defect = "edge_data_size" THEN Shorter(in.edge_data) ELSE in.edge_data
    IN  /\ defect = "edge_data_size" => in.edge_data # NULL
        /\ Commit("gdf_adj_list_view", gdf_adj_list_view(Graph, o, i, w),
                  defect = "none")

AddAdjList ==
  \E status \in ConverterStatuses, oob \in OutOfRangeReads(Graph) :
    Commit("gdf_add_adj_list", gdf_add_adj_list(Graph, status, oob), TRUE)

AddEdgeList ==
  \E out \in {gdf_add_edge_list(Graph)} :
    Commit("gdf_add_edge_list", out, TRUE)

AddTransposedAdjList ==
  \E status \in ConverterStatuses, oob \in OutOfRangeReads(Graph) :
    Commit("gdf_add_transposed_adj_list",
           gdf_add_transposed_adj_list(Graph, status, oob), TRUE)

DeleteAdjList ==
  \E out \in {gdf_delete_adj_list(Graph)} :
    Commit("gdf_delete_adj_list", out, TRUE)

DeleteEdgeList ==
  \E out \in {gdf_delete_edge_list(Graph)} :
    Commit("gdf_delete_edge_list", out, TRUE)

DeleteTransposedAdjList ==
  \E out \in {gdf_delete_transposed_adj_list(Graph)} :
    Commit("gdf_delete_transposed_adj_list", out, TRUE)

NumberOfVertices ==
  \E out \in {gdf_number_of_vertices(Graph)} :
    Commit("gdf_number_of_vertices", out, TRUE)

Init ==
  /\ edgeList = EmptyGraph.edgeList
  /\ adjList = EmptyGraph.adjList
  /\ transposedAdjList = EmptyGraph.transposedAdjList
  /\ numberOfVertices = EmptyGraph.numberOfVertices
  /\ prop = EmptyGraph.prop
  /\ last = [op |-> "none", status |-> "none", conv |-> FALSE, again |-> FALSE,
             valid |-> TRUE]
  /\ given = NULL
  /\ dropped = NULL

Next ==
  \/ ViewAsEdgeList
  \/ ViewAsAdjList
  \/ AddAdjList
  \/ AddEdgeList
  \/ AddTransposedAdjList
  \/ DeleteAdjList
  \/ DeleteEdgeList
  \/ DeleteTransposedAdjList
  \/ NumberOfVertices

Spec == Init /\ [][Next]_vars

\* ------------------------------------------------------------- derivations
\* SpecDerive follows the derivations on larger graphs: the caller holds one
\* well-formed graph (given), installs it with the view of its kind and then
\* adds and deletes representations; a delete records what it found in its slot
\* and the numberOfVertices of the handle (dropped) until the next call.

\* The edge_data columns of the graphs SpecDerive follows: none, distinct
\* float weights, double weights with a negative one, int32 weights.
DerivedEdgeData(n) ==
  {NULL,
   InputColumn([i \in 1 .. n |-> i], "GDF_FLOAT32", 0),
   InputColumn([i \in 1 .. n |-> IF i = n THEN -i ELSE i], "GDF_FLOAT64", 0),
   InputColumn([i \in 1 .. n |-> i], "GDF_INT32", 0)}

\* The edge lists of 1..MaxDerivedEdges edges over VertexIds, and the edges
\* (0,1),(0,2),(1,2) of the documented scenario.
DerivedEdgeListInputs ==
  UNION {[src : [1 .. n -> VertexIds], dest : [1 .. n -> VertexIds],
          edge_data : DerivedEdgeData(n)] : n \in 1 .. MaxDerivedEdges}
  \cup {[src |-> <<0, 0, 1>>, dest |-> <<1, 2, 2>>, edge_data |-> NULL]}

\* The adjacency lists of 1..MaxVertexId+1 vertices and 1..MaxDerivedEdges
\* edges, and offsets=[0,1,1,2], indices=[2,0] of the documented scenario.
DerivedAdjListInputs ==
  UNION {[offs : OffsetArrays(v, e), ind : [1 .. e -> 0 .. v - 1],
          edge_data : DerivedEdgeData(e)] :
           v \in 1 .. MaxVertexId + 1, e \in 1 .. MaxDerivedEdges}
  \cup {[offs |-> <<0, 1, 1, 2>>, ind |-> <<2, 0>>, edge_data |-> NULL]}

\* The caller's graph, tagged with the view that takes it.
DerivedInputs ==
  {[view |-> "gdf_edge_list_view", in |-> i] : i \in DerivedEdgeListInputs}
  \cup {[view |-> "gdf_adj_list_view", in |-> i] : i \in DerivedAdjListInputs}

\* gdf_edge_list_view of the caller's edge list (its index pairs pass
\* indexing_check).
ViewGivenEdgeList ==
  /\ given.view = "gdf_edge_list_view"
  /\ Commit("gdf_edge_list_view",
            gdf_edge_list_view(Graph,
                               InputColumn(given.in.src, "GDF_INT32", 0),
                               InputColumn(given.in.dest, "GDF_INT32", 0),
                               given.in.edge_data, "GDF_SUCCESS"),
            TRUE)

\* gdf_adj_list_view of the caller's adjacency list.
ViewGivenAdjList ==
  /\ given.view = "gdf_adj_list_view"
  /\ Commit("gdf_adj_list_view",
            gdf_adj_list_view(Graph,
                              InputColumn(given.in.offs, "GDF_INT32", 0),
                              InputColumn(given.in.ind, "GDF_INT32", 0),
                              given.in.edge_data),
            TRUE)

\* The converter's allocations succeed in SpecDerive (failed conversions are
\* followed in Spec): its status is 0.
AddAdjListConverted ==
  \E oob \in OutOfRangeReads(Graph) :
    Commit("gdf_add_adj_list", gdf_add_adj_list(Graph, 0, oob), TRUE)

AddTransposedAdjListConverted ==
  \E oob \in OutOfRangeReads(Graph) :
    Commit("gdf_add_transposed_adj_list",
           gdf_add_transposed_adj_list(Graph, 0, oob), TRUE)

\* What a delete finds: the content of its slot and numberOfVertices.
Found(slot) == [slot |-> slot, numberOfVertices |-> numberOfVertices]

DeleteAdjListRecorded ==
  /\ Apply("gdf_delete_adj_list", gdf_delete_adj_list(Graph), TRUE)
  /\ dropped' = Found(adjList)
  /\ UNCHANGED given

DeleteEdgeListRecorded ==
  /\ Apply("gdf_delete_edge_list", gdf_delete_edge_list(Graph), TRUE)
  /\ dropped' = Found(edgeList)
  /\ UNCHANGED given

DeleteTransposedAdjListRecorded ==
  /\ Apply("gdf_delete_transposed_adj_list",
           gdf_delete_transposed_adj_list(Graph), TRUE)
  /\ dropped' = Found(transposedAdjList)
  /\ UNCHANGED given

InitDerive ==
  /\ edgeList = EmptyGraph.edgeList
  /\ adjList = EmptyGraph.adjList
  /\ transposedAdjList = EmptyGraph.transposedAdjList
  /\ numberOfVertices = EmptyGraph.numberOfVertices
  /\ prop = EmptyGraph.prop
  /\ last = [op |-> "none", status |-> "none", conv |-> FALSE, again |-> FALSE,
             valid |-> TRUE]
  /\ given \in DerivedInputs
  /\ dropped = NULL

NextDerive ==
  \/ ViewGivenEdgeList
  \/ ViewGivenAdjList
  \/ AddAdjListConverted
  \/ AddEdgeList
  \/ AddTransposedAdjListConverted
  \/ DeleteAdjListRecorded
  \/ DeleteEdgeListRecorded
  \/ DeleteTransposedAdjListRecorded
  \/ NumberOfVertices

SpecDerive == InitDerive /\ [][NextDerive]_vars

\* ------------------------------------------------------------- claims
\* The names the specification gives the statuses.
InvalidState == "Invalid API parameter"
UnsupportedType == "GDF_UNSUPPORTED_DTYPE"

\* The six numeric kinds of edge weights the specification supports.
SupportedKinds ==
  {"GDF_INT8", "GDF_INT16", "GDF_INT32", "GDF_INT64", "GDF_FLOAT32", "GDF_FLOAT64"}

ViewOps == {"gdf_edge_list_view", "gdf_adj_list_view"}
AddOps == {"gdf_add_adj_list", "gdf_add_edge_list", "gdf_add_transposed_adj_list"}
DeleteOps ==
  {"gdf_delete_adj_list", "gdf_delete_edge_list", "gdf_delete_transposed_adj_list"}

\* The step leaves the three representation slots as they were.
SlotsUnchanged ==
  /\ edgeList' = edgeList
  /\ adjList' = adjList
  /\ transposedAdjList' = transposedAdjList

\* C1: a view that fails leaves the three slots, numberOfVertices and
\* has_negative_edges as they were before the call.
C1_FailedViewLeavesHandle ==
  [][(last'.op \in ViewOps /\ last'.status # "GDF_SUCCESS")
       => /\ SlotsUnchanged
          /\ numberOfVertices' = numberOfVertices
          /\ HasNegativeEdges(Graph') = HasNegativeEdges(Graph)]_vars

\* C2: an add that fails leaves the three slots and numberOfVertices as they
\* were before the call.
C2_FailedAddLeavesHandle ==
  [][(last'.op \in AddOps /\ last'.status # "GDF_SUCCESS")
       => /\ SlotsUnchanged
          /\ numberOfVertices' = numberOfVertices]_vars

\* C3: a view of a handle that holds any representation fails with
\* InvalidState; a view of an empty handle with valid input succeeds and
\* populates exactly the slot the call names.
C3_ViewMutualExclusion ==
  [][/\ (last'.op \in ViewOps /\ Populated(Graph) # {})
          => last'.status = InvalidState
     /\ (last'.op = "gdf_edge_list_view" /\ Populated(Graph) = {} /\ last'.valid)
          => (last'.status = "GDF_SUCCESS" /\ Populated(Graph') = {"edgeList"})
     /\ (last'.op = "gdf_adj_list_view" /\ Populated(Graph) = {} /\ last'.valid)
          => (last'.status = "GDF_SUCCESS" /\ Populated(Graph') = {"adjList"})]_vars

\* C3's case: a view was refused on a handle whose only representation is the
\* edge list a view installed.
C3_Witness ==
  /\ last.op = "gdf_adj_list_view"
  /\ last.status = InvalidState
  /\ last.valid
  /\ Populated(Graph) = {"edgeList"}

\* C4: whenever number_of_vertices succeeds, numberOfVertices is the offsets
\* length minus one of a populated adjacency list or transposed adjacency list
\* or, with only an edge list populated, 1 + the largest vertex identifier of
\* that edge list.
C4_VertexCountMatchesRepresentation ==
  (last.op = "gdf_number_of_vertices" /\ last.status = "GDF_SUCCESS")
    => \/ adjList # NULL /\ numberOfVertices = adjList.offsets.size - 1
       \/ /\ transposedAdjList # NULL
          /\ numberOfVertices = transposedAdjList.offsets.size - 1
       \/ /\ Populated(Graph) = {"edgeList"}
          /\ edgeList.src_indices.size > 0
          /\ numberOfVertices =
               1 + Max2(SeqMax(edgeList.src_indices.data),
                        SeqMax(edgeList.dest_indices.data))

\* C5: add_transposed_adjacency_list on a handle that holds a transposed
\* adjacency list succeeds and leaves the three slots and numberOfVertices as
\* they were.
C5_AddTransposedNoOpWhenPresent ==
  [][(last'.op = "gdf_add_transposed_adj_list" /\ transposedAdjList # NULL)
       => /\ last'.status = "GDF_SUCCESS"
          /\ SlotsUnchanged
          /\ numberOfVertices' = numberOfVertices]_vars

\* C6: with an edge list whose weights are of one of the six supported kinds,
\* add_adjacency_list and add_transposed_adjacency_list succeed (short of a
\* failure the converter itself reports), and never fail with UnsupportedType.
C6_SupportedWeightKindsConvert ==
  [][(/\ last'.op \in {"gdf_add_adj_list", "gdf_add_transposed_adj_list"}
      /\ edgeList # NULL
      /\ edgeList.edge_data # NULL
      /\ edgeList.edge_data.dtype \in SupportedKinds)
       => /\ last'.status # UnsupportedType
          /\ \/ last'.status = "GDF_SUCCESS"
             \/ last'.conv /\ last'.status = "GDF_CUDA_ERROR"]_vars

\* The edge_data a view has just installed (NULL when it installed none).
InstalledEdgeData ==
  CASE last.op = "gdf_edge_list_view" /\ edgeList # NULL -> edgeList.edge_data
    [] last.op = "gdf_adj_list_view" /\ adjList # NULL   -> adjList.edge_data
    [] OTHER                                             -> NULL

\* C7: no view succeeds with an edge_data of a kind outside the six supported
\* ones, recording has_negative_edges = false as if there were no weights.
C7_UnsupportedWeightKindRejected ==
  ~(/\ last.op \in ViewOps
    /\ last.status = "GDF_SUCCESS"
    /\ InstalledEdgeData # NULL
    /\ InstalledEdgeData.dtype \notin SupportedKinds
    /\ HasNegativeEdges(Graph) = "GDF_PROP_FALSE")

\* C8: add_adjacency_list right after an add_adjacency_list that succeeded
\* succeeds without running the converter and leaves the adjacency list, the
\* other two slots and numberOfVertices as the first call left them.
C8_AddAdjListIdempotent ==
  [][(/\ last.op = "gdf_add_adj_list"
      /\ last.status = "GDF_SUCCESS"
      /\ last'.op = "gdf_add_adj_list")
       => /\ last'.status = "GDF_SUCCESS"
          /\ ~last'.conv
          /\ SlotsUnchanged
          /\ numberOfVertices' = numberOfVertices]_vars

\* C8's case: the second of two add_adjacency_list calls in a row has
\* answered, on a handle that holds an edge list and an adjacency list.
C8_Witness ==
  /\ last.op = "gdf_add_adj_list"
  /\ last.again
  /\ last.status = "GDF_SUCCESS"
  /\ edgeList # NULL
  /\ adjList # NULL
  /\ adjList.offsets.size = numberOfVertices + 1

\* C9: each delete succeeds in every state, leaves its slot empty and the
\* other two slots as they were; a second call in a row changes nothing.
C9_DeleteFrame ==
  [][/\ last'.op \in DeleteOps => last'.status = "GDF_SUCCESS"
     /\ last'.op = "gdf_delete_adj_list"
          => (adjList' = NULL /\ edgeList' = edgeList
              /\ transposedAdjList' = transposedAdjList)
     /\ last'.op = "gdf_delete_edge_list"
          => (edgeList' = NULL /\ adjList' = adjList
              /\ transposedAdjList' = transposedAdjList)
     /\ last'.op = "gdf_delete_transposed_adj_list"
          => (transposedAdjList' = NULL /\ edgeList' = edgeList
              /\ adjList' = adjList)
     /\ (last'.op \in DeleteOps /\ last.op = last'.op) => Graph' = Graph]_vars

\* C9's case: delete_adjacency_list has answered twice in a row on a handle
\* whose other two slots are populated.
C9_Witness ==
  /\ last.op = "gdf_delete_adj_list"
  /\ last.again
  /\ adjList = NULL
  /\ edgeList # NULL
  /\ transposedAdjList # NULL

\* C10: an add on a handle that holds no source for it fails with
\* InvalidState: add_adjacency_list with no adjacency list and no edge list,
\* add_edge_list and add_transposed_adjacency_list with no edge list and no
\* adjacency list.
C10_DeriveWithoutSourceFails ==
  [][(last'.op \in AddOps /\ edgeList = NULL /\ adjList = NULL)
       => last'.status = InvalidState]_vars

\* C10's case: an add was refused on a handle that holds only a transposed
\* adjacency list.
C10_Witness ==
  /\ last.op \in AddOps
  /\ last.status = InvalidState
  /\ Populated(Graph) = {"transposedAdjList"}

\* How often each element of a sequence occurs in it.
BagOf(seq) ==
  [t \in {seq[i] : i \in 1 .. Len(seq)} |->
     Cardinality({i \in 1 .. Len(seq) : seq[i] = t})]

\* The (src, dest, weight) edges of n parallel entries (weight 0 throughout
\* when w is NULL), as a bag, with whether they carry weights.
EdgeBag(src, dest, w, n) ==
  [weighted |-> w # NULL,
   edges |-> BagOf([i \in 1 .. n |->
                      <<src[i], dest[i], IF w # NULL THEN w.data[i] ELSE 0>>])]

\* The edges an edge list encodes.
EdgesOfEdgeList(el) ==
  EdgeBag(el.src_indices.data, el.dest_indices.data, el.edge_data,
          el.src_indices.size)

\* The vertex of each entry of an adjacency list's indices.
RowOf(al) ==
  offsets_to_indices(al.offsets.data, al.offsets.size - 1, al.indices.size)

\* The edges an adjacency list encodes: (v, indices[i], weight[i]) for every i
\* in the offset range of v.
EdgesOfAdjList(al) ==
  EdgeBag(RowOf(al), al.indices.data, al.edge_data, al.indices.size)

\* The edges a transposed adjacency list encodes: its rows are destinations.
EdgesOfTransposedAdjList(al) ==
  EdgeBag(al.indices.data, RowOf(al), al.edge_data, al.indices.size)

\* C11: in every state the populated representations encode the same edges:
\* the edge list and the adjacency list the same bag of (src, dest[, weight]),
\* the transposed adjacency list the same bag with src and dest swapped.
C11_RepresentationsAgree ==
  /\ (edgeList # NULL /\ adjList # NULL)
       => EdgesOfEdgeList(edgeList) = EdgesOfAdjList(adjList)
  /\ (edgeList # NULL /\ transposedAdjList # NULL)
       => EdgesOfEdgeList(edgeList) = EdgesOfTransposedAdjList(transposedAdjList)
  /\ (adjList # NULL /\ transposedAdjList # NULL)
       => EdgesOfAdjList(adjList) = EdgesOfTransposedAdjList(transposedAdjList)

\* C12: after a view that succeeded, has_negative_edges is true when an
\* edge_data was given and holds a value below zero, and false otherwise.
C12_NegativeEdgesFlag ==
  (last.op \in ViewOps /\ last.status = "GDF_SUCCESS")
    => HasNegativeEdges(Graph) =
         PropOf(/\ InstalledEdgeData # NULL
                /\ \E i \in 1 .. InstalledEdgeData.size :
                     InstalledEdgeData.data[i] < 0)

\* C19: add_transposed_adjacency_list right after a view_as_adjacency_list that
\* succeeded leaves numberOfVertices as the view set it, and the offsets of the
\* transposed adjacency list it derives are as long as the adjacency list's.
C19_TransposedKeepsVertexCount ==
  [][(/\ last.op = "gdf_adj_list_view"
      /\ last.status = "GDF_SUCCESS"
      /\ last'.op = "gdf_add_transposed_adj_list"
      /\ last'.status = "GDF_SUCCESS")
       => /\ numberOfVertices' = numberOfVertices
          /\ adjList'.offsets.size = transposedAdjList'.offsets.size]_vars

\* C13: add_edge_list on a handle that holds an adjacency list and no edge
\* list succeeds and installs an edge list of as many entries as the adjacency
\* list has indices, whose src_indices is v at every position of the offset
\* range of v, whose dest_indices are the adjacency list's indices and whose
\* edge_data are the adjacency list's edge_data (none if it has none).
C13_AddEdgeListExpandsOffsets ==
  [][(last'.op = "gdf_add_edge_list" /\ edgeList = NULL /\ adjList # NULL)
       => /\ last'.status = "GDF_SUCCESS"
          /\ edgeList' # NULL
          /\ edgeList'.src_indices.size = adjList.indices.size
          /\ edgeList'.dest_indices.size = adjList.indices.size
          /\ \A v \in 0 .. adjList.offsets.size - 2 :
               \A i \in adjList.offsets.data[v + 1] .. adjList.offsets.data[v + 2] - 1 :
                 edgeList'.src_indices.data[i + 1] = v
          /\ edgeList'.dest_indices.data = adjList.indices.data
          /\ IF adjList.edge_data = NULL
               THEN edgeList'.edge_data = NULL
               ELSE /\ edgeList'.edge_data # NULL
                    /\ edgeList'.edge_data.data = adjList.edge_data.data
                    /\ edgeList'.edge_data.size = adjList.indices.size]_vars

\* C13's case: the adjacency list offsets=[0,1,1,2], indices=[2,0] was viewed
\* and add_edge_list derived src=[0,2], dest=[2,0] from it.
C13_Witness ==
  /\ last.op = "gdf_add_edge_list"
  /\ last.status = "GDF_SUCCESS"
  /\ given.view = "gdf_adj_list_view"
  /\ adjList # NULL
  /\ adjList.offsets.data = <<0, 1, 1, 2>>
  /\ adjList.indices.data = <<2, 0>>
  /\ edgeList # NULL
  /\ edgeList.src_indices.data = <<0, 2>>
  /\ edgeList.dest_indices.data = <<2, 0>>
  /\ edgeList.edge_data = NULL

\* The edges of the caller's edge list.
EdgesOfGiven ==
  EdgeBag(given.in.src, given.in.dest, given.in.edge_data, Len(given.in.src))

\* C14: the caller's edge list was installed by view_as_edge_list and the
\* handle now holds only the adjacency list add_adjacency_list derived:
\* add_edge_list succeeds and the edge list it derives holds the same bag of
\* (src, dest[, weight]) as the caller's edge list.
C14_RoundTrip ==
  [][(/\ given.view = "gdf_edge_list_view"
      /\ last'.op = "gdf_add_edge_list"
      /\ Populated(Graph) = {"adjList"})
       => /\ last'.status = "GDF_SUCCESS"
          /\ EdgesOfEdgeList(edgeList') = EdgesOfGiven]_vars

\* C14's case: a weighted edge list whose sources are not in ascending order
\* went through the round trip and came back in another order.
C14_Witness ==
  /\ given.view = "gdf_edge_list_view"
  /\ given.in.edge_data # NULL
  /\ last.op = "gdf_add_edge_list"
  /\ last.status = "GDF_SUCCESS"
  /\ edgeList # NULL
  /\ edgeList.src_indices.data # given.in.src
  /\ edgeList.edge_data.data # given.in.edge_data.data
  /\ EdgesOfEdgeList(edgeList) = EdgesOfGiven

\* A caller's column over data.
AsInput(col) == InputColumn(col.data, col.dtype, 0)

\* What add_adjacency_list answers on another handle, on which the edge list
\* (dest, src[, weight]) of el was installed by view_as_edge_list.
AdjListOfReversed(el) ==
  gdf_add_adj_list(
    gdf_edge_list_view(EmptyGraph, AsInput(el.dest_indices),
                       AsInput(el.src_indices),
                       IF el.edge_data # NULL THEN AsInput(el.edge_data) ELSE NULL,
                       "GDF_SUCCESS").g,
    0, 0)

\* C15: when add_transposed_adjacency_list derives the transposed adjacency
\* list from the edge list (src, dest[, weight]) of the handle, its offsets,
\* indices and weights are those of the adjacency list add_adjacency_list
\* derives on another handle from the edge list (dest, src[, weight]).
C15_TransposeIsAdjacencyOfReversed ==
  [][(/\ last'.op = "gdf_add_transposed_adj_list"
      /\ last'.status = "GDF_SUCCESS"
      /\ edgeList # NULL
      /\ transposedAdjList = NULL)
       => LET other == AdjListOfReversed(edgeList)
          IN  /\ other.status = "GDF_SUCCESS"
              /\ transposedAdjList' # NULL
              /\ transposedAdjList'.offsets = other.g.adjList.offsets
              /\ transposedAdjList'.indices = other.g.adjList.indices
              /\ transposedAdjList'.edge_data = other.g.adjList.edge_data]_vars

\* C15's case: a transposed adjacency list was derived from a weighted edge
\* list of two edges whose destinations are not in ascending order, so that
\* the weights were permuted.
C15_Witness ==
  /\ last.op = "gdf_add_transposed_adj_list"
  /\ last.status = "GDF_SUCCESS"
  /\ last.conv
  /\ given.view = "gdf_edge_list_view"
  /\ edgeList # NULL
  /\ edgeList.edge_data # NULL
  /\ transposedAdjList # NULL
  /\ transposedAdjList.indices.size = 2
  /\ transposedAdjList.edge_data.data # edgeList.edge_data.data
  /\ transposedAdjList.offsets = AdjListOfReversed(edgeList).g.adjList.offsets

\* The destinations (or weights) col[i] of the edges with source v, in the
\* order of the edge list.
OfSource(src, col, v) ==
  LET pos == SelectSeq([i \in 1 .. Len(src) |-> i], LAMBDA i : src[i] = v)
  IN  [k \in 1 .. Len(pos) |-> col[pos[k]]]

\* The part of an adjacency list's column that lies in the offset range of v.
InRange(al, col, v) ==
  SubSeq(col, al.offsets.data[v + 1] + 1, al.offsets.data[v + 2])

\* C16: when add_adjacency_list succeeds on a handle that holds only an edge
\* list, with V = 1 + the largest vertex identifier of the edge list: offsets
\* has V+1 entries, the offset range of every vertex v holds as many entries
\* as there are edges with source v, indices holds there the destinations of
\* those edges in the order of the edge list, the weights are permuted the same
\* way, and numberOfVertices is the offsets length minus one.
C16_AddAdjListGroupsBySource ==
  [][(/\ last'.op = "gdf_add_adj_list"
      /\ last'.status = "GDF_SUCCESS"
      /\ Populated(Graph) = {"edgeList"})
       => LET src  == edgeList.src_indices.data
              dest == edgeList.dest_indices.data
              V    == 1 + Max2(SeqMax(src), SeqMax(dest))
              al   == adjList'
          IN  /\ al # NULL
              /\ al.offsets.size = V + 1
              /\ Len(al.offsets.data) = V + 1
              /\ al.indices.size = Len(src)
              /\ Len(al.indices.data) = Len(src)
              /\ \A v \in 0 .. V - 1 :
                   /\ al.offsets.data[v + 2] - al.offsets.data[v + 1] =
                        Cardinality({i \in 1 .. Len(src) : src[i] = v})
                   /\ InRange(al, al.indices.data, v) = OfSource(src, dest, v)
                   /\ edgeList.edge_data # NULL =>
                        InRange(al, al.edge_data.data, v) =
                          OfSource(src, edgeList.edge_data.data, v)
              /\ (edgeList.edge_data = NULL) = (al.edge_data = NULL)
              /\ numberOfVertices' = al.offsets.size - 1]_vars

\* C16's case: the edges (0,1),(0,2),(1,2) were viewed and add_adjacency_list
\* derived offsets=[0,2,3,3], indices=[1,2,2], numberOfVertices=3.
C16_Witness ==
  /\ last.op = "gdf_add_adj_list"
  /\ last.status = "GDF_SUCCESS"
  /\ last.conv
  /\ edgeList # NULL
  /\ edgeList.src_indices.data = <<0, 0, 1>>
  /\ edgeList.dest_indices.data = <<1, 2, 2>>
  /\ adjList # NULL
  /\ adjList.offsets.data = <<0, 2, 3, 3>>
  /\ adjList.indices.data = <<1, 2, 2>>
  /\ numberOfVertices = 3

\* The offsets of an adjacency list start at 0, never decrease and end at the
\* number of its indices.
OffsetsWellFormed(al) ==
  LET o == al.offsets
  IN  /\ o.size >= 1
      /\ Len(o.data) = o.size
      /\ o.data[1] = 0
      /\ \A i \in 1 .. o.size - 1 : o.data[i] <= o.data[i + 1]
      /\ o.data[o.size] = al.indices.size
      /\ Len(al.indices.data) = al.indices.size

\* C17: the adjacency list a successful add_adjacency_list derives and the
\* transposed adjacency list a successful add_transposed_adjacency_list
\* derives have offsets that start at 0, never decrease and end at
\* indices.size.
C17_DerivedOffsetsMonotone ==
  [][(last'.conv /\ last'.status = "GDF_SUCCESS")
       => CASE last'.op = "gdf_add_adj_list" ->
                 adjList' # NULL /\ OffsetsWellFormed(adjList')
            [] last'.op = "gdf_add_transposed_adj_list" ->
                 transposedAdjList' # NULL /\ OffsetsWellFormed(transposedAdjList')
            [] OTHER -> FALSE]_vars

\* C17's case: a transposed adjacency list of two edges was derived whose
\* first vertex has no entry and whose last vertex has both.
C17_Witness ==
  /\ last.op = "gdf_add_transposed_adj_list"
  /\ last.status = "GDF_SUCCESS"
  /\ last.conv
  /\ transposedAdjList # NULL
  /\ transposedAdjList.offsets.data = <<0, 0, 2>>
  /\ transposedAdjList.indices.size = 2

\* The weight kinds the two conversions take.
ConvertibleKinds == {"GDF_FLOAT32", "GDF_FLOAT64"}

\* C18: add_transposed_adjacency_list on a handle that holds only an adjacency
\* list, without weights or with weights of a convertible kind, succeeds (the
\* converter's allocations succeeding): afterwards all three slots are
\* populated, the adjacency list is as it was, the edge list is the one
\* add_edge_list derives from the adjacency list and the transposed adjacency
\* list is converted from that edge list. With an edge list and an adjacency
\* list on the handle the edge list stays and is the source of the conversion.
C18_TransposedDerivesEdgeListFirst ==
  [][/\ (/\ last'.op = "gdf_add_transposed_adj_list"
         /\ Populated(Graph) = {"adjList"}
         /\ \/ adjList.edge_data = NULL
            \/ adjList.edge_data.dtype \in ConvertibleKinds)
          => /\ last'.status = "GDF_SUCCESS"
             /\ Populated(Graph') = {"edgeList", "adjList", "transposedAdjList"}
             /\ adjList' = adjList
             /\ edgeList' = gdf_add_edge_list(Graph).g.edgeList
             /\ EdgesOfTransposedAdjList(transposedAdjList') = EdgesOfAdjList(adjList)
             /\ transposedAdjList'.offsets.size =
                  2 + Max2(SeqMax(edgeList'.src_indices.data),
                           SeqMax(edgeList'.dest_indices.data))
     /\ (/\ last'.op = "gdf_add_transposed_adj_list"
         /\ last'.status = "GDF_SUCCESS"
         /\ Populated(Graph) = {"edgeList", "adjList"})
          => /\ edgeList' = edgeList
             /\ adjList' = adjList
             /\ EdgesOfTransposedAdjList(transposedAdjList') = EdgesOfEdgeList(edgeList)
             /\ transposedAdjList'.offsets.size =
                  2 + Max2(SeqMax(edgeList.src_indices.data),
                           SeqMax(edgeList.dest_indices.data))]_vars

\* C18's case: add_transposed_adjacency_list has succeeded on a handle whose
\* weighted adjacency list was viewed, and all three slots are populated.
C18_Witness ==
  /\ last.op = "gdf_add_transposed_adj_list"
  /\ last.status = "GDF_SUCCESS"
  /\ last.conv
  /\ given.view = "gdf_adj_list_view"
  /\ Populated(Graph) = {"edgeList", "adjList", "transposedAdjList"}
  /\ adjList.edge_data # NULL
  /\ adjList.indices.size = 2
  /\ adjList.offsets.data = given.in.offs
  /\ EdgesOfTransposedAdjList(transposedAdjList) = EdgesOfEdgeList(edgeList)

\* C20: with an edge list on the handle, add_adjacency_list right after a
\* delete_adjacency_list that found an adjacency list derives one whose
\* offsets are as long as those of the deleted one, and numberOfVertices is
\* what it was before the delete; with an adjacency list on the handle,
\* add_edge_list right after a delete_edge_list that found an edge list derives
\* one with the same bag of edges as the deleted one.
C20_DeleteThenAddRestores ==
  [][/\ (/\ last.op = "gdf_delete_adj_list"
         /\ dropped.slot # NULL
         /\ edgeList # NULL
         /\ last'.op = "gdf_add_adj_list"
         /\ last'.status = "GDF_SUCCESS")
          => /\ adjList' # NULL
             /\ adjList'.offsets.size = dropped.slot.offsets.size
             /\ numberOfVertices' = dropped.numberOfVertices
     /\ (/\ last.op = "gdf_delete_edge_list"
         /\ dropped.slot # NULL
         /\ adjList # NULL
         /\ last'.op = "gdf_add_edge_list"
         /\ last'.status = "GDF_SUCCESS")
          => /\ edgeList' # NULL
             /\ EdgesOfEdgeList(edgeList') = EdgesOfEdgeList(dropped.slot)]_vars

\* The index columns of the populated slots.
IndexColumns ==
  (IF edgeList # NULL
     THEN {edgeList.src_indices, edgeList.dest_indices} ELSE {})
  \cup (IF adjList # NULL THEN {adjList.offsets, adjList.indices} ELSE {})
  \cup (IF transposedAdjList # NULL
          THEN {transposedAdjList.offsets, transposedAdjList.indices} ELSE {})

\* The operations that test the dtype of the edge list's index columns.
IndexDtypeOps ==
  {"gdf_add_adj_list", "gdf_add_transposed_adj_list", "gdf_number_of_vertices"}

\* C21: in every state every index column of a populated slot has dtype
\* int32, and add_adjacency_list, add_transposed_adjacency_list and
\* number_of_vertices never end at their index-dtype precondition.
C21_IndexColumnsAreInt32 ==
  /\ \A col \in IndexColumns : col.dtype = "GDF_INT32"
  /\ last.op \in IndexDtypeOps => last.status # "Unsupported data type"

\* C21's case: add_transposed_adjacency_list has passed its index-dtype
\* precondition and converted, and the three populated slots hold int32 index
\* columns only.
C21_Witness ==
  /\ last.op = "gdf_add_transposed_adj_list"
  /\ last.status = "GDF_SUCCESS"
  /\ last.conv
  /\ Populated(Graph) = {"edgeList", "adjList", "transposedAdjList"}
  /\ \A col \in IndexColumns : col.dtype = "GDF_INT32"

====
